---- MODULE Spec2Model ----
(***************************************************************************)
(* A model of one scraping session of eth-scrapper: ExternalScrapper       *)
(* (src/unnamed/part_001) from construction to the return of scrappe().    *)
(* Wall-clock time is abstracted: every timer and every renderer           *)
(* completion is an event that may happen whenever it is pending.          *)
(***************************************************************************)
EXTENDS Integers, FiniteSets, Sequences, TLC

\* ---------------------------------------------------------------- bounds
WindowsBound == 2
PagesBound == 2
WaveWindowsBound == 6
WavePagesBound == 13
TallyWindowsBound == 3
TallyPagesBound == 4
LinksBound == 3

\* ------------------------------------------------------ program constants
maxRetries == 2
batchDelay == 100
MinContentLength == 500
ModerateErrorThreshold == 2
HighErrorThreshold == 5
ModerateErrorDelay == 800
HighErrorDelay == 2000
MatchLimit == 10000
ContentDelayStep == 500
ContentDelayCap == 2000
RateLimitDelayStep == 1000
RateLimitDelayCap == 3000
ErrorDelayStep == 300
ErrorDelayCap == 1000

VARIABLES
    pc,               \* position of scrappe()
    maxWindows,       \* this.maxWindows
    totalPages,       \* this.totalPages (requested)
    windows,          \* this.windows: for each window index, the ids driving it
    detectedPages,    \* result of detectTotalPages()
    actualTotalPages, \* min(detectedPages, totalPages)
    batchStart,       \* first page of the current wave
    batchEnd,         \* last page of the current wave
    batchErrors,      \* rejected results of the wave that just settled
    errorCount,       \* cumulative rejected results
    delay,            \* the delay chosen after the wave that just settled
    task,             \* per page: position of its page promise / retry promise
    attempt,          \* per page: attempt number inside scrapePageSafe
    raced,            \* per page: outcome of the race against the batch timeout
    failedPages,      \* this.failedPages
    processedPages,   \* processedPages
    allHashesSet,     \* allHashesSet
    uniqueHashes,     \* the array scrappe() returns
    launches,         \* history: how often processPage(page) was called
    okPages,          \* history: pages whose identifiers were merged
    okHashes,         \* history: identifiers of every page that was merged
    longSeen,         \* history: pages that ever received >= 500 characters
    cloudflarePassed, \* the file .cloudflare-passed exists
    pageHtml,         \* the htmlContent handed to parseHTMLForHashes
    pageHashes,       \* the array parseHTMLForHashes returned
    internal,         \* the InternalScrapper session run next to this one
    run,              \* runScraper: its position and the object it returns
    backoffDelay,     \* per page: the delay scrapePageSafe waits before retrying
    destroyed         \* the window indices whose window has been closed

vars == << pc, maxWindows, totalPages, windows, detectedPages, actualTotalPages,
           batchStart, batchEnd, batchErrors, errorCount, delay, task, attempt,
           raced, failedPages, processedPages, allHashesSet, uniqueHashes,
           launches, okPages, okHashes, longSeen, cloudflarePassed, pageHtml,
           pageHashes, internal, run, backoffDelay, destroyed >>

parseVars == << pageHtml, pageHashes >>

runVars == << internal, run >>

slotVars == << backoffDelay, destroyed >>

\* ------------------------------------------------------------ input sets
Hashes == {"0xAA", "0xBB"}

\* The pieces of a page that hold a hex string: an anchor whose href ends in
\* /tx/<id>", or the same text outside an href. "0xC" stands for a hex string
\* that does not have 64 digits.
LinkAA == [href |-> TRUE, id |-> "0xAA", times |-> 1]

LinkBB == [href |-> TRUE, id |-> "0xBB", times |-> 1]

Tokens ==
    {LinkAA, LinkBB, [href |-> FALSE, id |-> "0xAA", times |-> 1],
     [href |-> TRUE, id |-> "0xC", times |-> 1]}

LinkLists == {<< >>, << LinkAA >>, << LinkAA, LinkAA, LinkBB >>}
PatternSets == {{}, {"cloudflare"}, {"captcha", "cloudflare"}}
ErrorKinds == {"ERR_ABORTED", "timeout", "other"}

NullContent == [present |-> FALSE, len |-> 0, pats |-> {}, links |-> << >>]

\* What document.documentElement.outerHTML can evaluate to: nothing, a short
\* page that still holds a tx link, a page of exactly the minimum length, a
\* block page, and full pages with no, one or two identifiers.
Contents ==
    {[present |-> TRUE, len |-> MinContentLength - 1, pats |-> {}, links |-> << LinkAA >>],
     [present |-> TRUE, len |-> MinContentLength, pats |-> {}, links |-> << LinkAA >>]}
    \cup {[present |-> TRUE, len |-> MinContentLength + 1, pats |-> ps, links |-> << LinkAA >>] :
             ps \in PatternSets \ {{}}}
    \cup {[present |-> TRUE, len |-> MinContentLength + 1, pats |-> {}, links |-> l] :
             l \in LinkLists}

\* What the renderer does with one navigation + evaluation.
Outcomes ==
    {[error |-> e, content |-> NullContent] : e \in ErrorKinds}
    \cup {[error |-> "none", content |-> c] : c \in Contents \cup {NullContent}}

Min(a, b) == IF a < b THEN a ELSE b

Pages == DOMAIN task

\* What the pagination script can return: parseInt of a run of digits.
DetectedValues == {0} \cup Pages

\* ------------------------------------------------------- pure functions
\* Faulty variant: the page number itself is reduced.
WindowIndexOffByOne(page) == page % maxWindows

\* const windowindex = (page - 1) % this.maxWindows
WindowIndex(page) == (page - 1) % maxWindows

\* The failure patterns, lower-cased as the comparison lower-cases them.
failurePatterns ==
    << "access denied", "captcha", "captcha", "blocked", "rate limit",
       "temporarily unavailable", "service unavailable", "cloudflare",
       "please try again" >>

\* failurePatterns.find(...): the first pattern the content includes.
DetectedFailure(content) ==
    LET hits == {i \in DOMAIN failurePatterns : failurePatterns[i] \in content.pats}
    IN  IF hits = {} THEN "none"
        ELSE failurePatterns[CHOOSE i \in hits : \A j \in hits : i <= j]

Truthy(content) == content.present /\ content.len > 0

\* scrapePage: every error is caught and becomes htmlContent: null.
scrapePage(outcome) ==
    IF outcome.error # "none" THEN NullContent
    ELSE IF ~Truthy(outcome.content) \/ outcome.content.len < MinContentLength
         THEN NullContent
    ELSE IF DetectedFailure(outcome.content) # "none" THEN NullContent
    ELSE outcome.content

\* scrapePageSafe: the validation of one attempt's result.
SafeAccepts(htmlContent) == Truthy(htmlContent) /\ htmlContent.len > MinContentLength

\* How await this.scrapePage(page) completes inside scrapePageSafe: scrapePage
\* wraps its whole body in try/catch, so it never rejects.
ScrapePageCompletion(outcome) ==
    [thrown |-> FALSE, message |-> "none", htmlContent |-> scrapePage(outcome)]

\* scrapePageSafe: the delay before the next attempt, in the try block for a
\* result that was not accepted and in the catch block for a thrown error.
InlineDelay(attemptNo, completion) ==
    IF ~completion.thrown
    THEN Min(ContentDelayStep * attemptNo, ContentDelayCap)
    ELSE IF completion.message \in {"ERR_ABORTED", "timeout"}
         THEN Min(RateLimitDelayStep * attemptNo, RateLimitDelayCap)
    ELSE Min(ErrorDelayStep * attemptNo, ErrorDelayCap)

\* clearCloudflareStatus: the status file is unlinked if it exists.
clearCloudflareStatus(passed) == FALSE

\* scrapePage: the status file after one navigation + evaluation. The failure
\* patterns are looked at only in content that passed the length test, and
\* the file is cleared only if the pattern found is 'cloudflare'.
StatusAfter(passed, outcome) ==
    IF /\ outcome.error = "none"
       /\ Truthy(outcome.content)
       /\ outcome.content.len >= MinContentLength
       /\ DetectedFailure(outcome.content) = "cloudflare"
    THEN clearCloudflareStatus(passed)
    ELSE passed

Range(seq) == {seq[i] : i \in DOMAIN seq}

\* hashSet.add(match[1]): a Set keeps its elements in insertion order.
SetAdd(seq, x) == IF x \in Range(seq) THEN seq ELSE Append(seq, x)

\* The regular expression href="[^"]*\/tx\/(0x[a-fA-F0-9]{64})" matches.
Matches(token) == token.href /\ token.id \in Hashes

\* Faulty variant: every match is pushed to the result.
parseHTMLForHashesAllMatches(htmlContent) ==
    LET found == SelectSeq(htmlContent.links, Matches)
    IN  [i \in 1 .. Len(found) |-> found[i].id]

RECURSIVE ExecLoop(_, _, _, _)
\* while ((match = hashRegex.exec(htmlContent)) !== null): add, count, and
\* break once more than MatchLimit matches were counted. A piece stands for
\* links[i].times consecutive copies of the same link, taken in one go: the
\* first copy is added before the count is tested, and the loop breaks inside
\* the piece when its copies take the count above MatchLimit.
ExecLoop(links, i, hashSet, matchCount) ==
    IF i > Len(links) THEN hashSet
    ELSE IF ~Matches(links[i]) THEN ExecLoop(links, i + 1, hashSet, matchCount)
    ELSE IF matchCount + links[i].times > MatchLimit
         THEN SetAdd(hashSet, links[i].id)
    ELSE ExecLoop(links, i + 1, SetAdd(hashSet, links[i].id),
                  matchCount + links[i].times)

\* parseHTMLForHashes returns Array.from(hashSet).
parseHTMLForHashes(htmlContent) ==
    IF htmlContent.present THEN ExecLoop(htmlContent.links, 1, << >>, 0) ELSE << >>

\* Faulty variant: the result object is tested instead of its content.
TaskSucceededAlways(htmlContent) == TRUE

\* processPage / retryFailedPages: if (result.htmlContent)
TaskSucceeded(htmlContent) == Truthy(htmlContent)

\* Faulty variant: the set is replaced by the page's identifiers.
MergeHashesReplace(set, hashes) == Range(hashes)

\* hashes.forEach(hash => allHashesSet.add(hash))
MergeHashes(set, hashes) == set \cup Range(hashes)

\* Faulty variants: the failure is never recorded; it is recorded on success
\* too; it is recorded for the neighbouring page.
FailedAfterTaskNever(failed, page, ok) == failed

FailedAfterTaskNeighbour(failed, page, ok) ==
    IF ok THEN failed
    ELSE failed \cup {IF page + 1 \in Pages THEN page + 1 ELSE 1}

FailedAfterTaskAlways(failed, page, ok) == failed \cup {page}

\* processPage: this.failedPages.add(page) in the else branch only.
FailedAfterTask(failed, page, ok) == IF ok THEN failed ELSE failed \cup {page}

\* Faulty variant: the detected page count is ignored.
ActualTotalPagesRequested(detected, requested) == requested

\* Math.min(detectedPages, this.totalPages)
ActualTotalPages(detected, requested) == Min(detected, requested)

\* Faulty variant: the value of the script is returned as it is.
OrOneKeeps(value) == value

\* return totalPages || 1
OrOne(value) == IF value = 0 THEN 1 ELSE value

\* Faulty variant: the delay is chosen from errorCount.
InterWaveDelayCumulative(errors, cumulative) ==
    IF cumulative > HighErrorThreshold THEN HighErrorDelay
    ELSE IF cumulative > ModerateErrorThreshold THEN ModerateErrorDelay
    ELSE batchDelay

\* the adaptive delay chosen from batchErrors
InterWaveDelay(errors, cumulative) ==
    IF errors > HighErrorThreshold THEN HighErrorDelay
    ELSE IF errors > ModerateErrorThreshold THEN ModerateErrorDelay
    ELSE batchDelay

\* Faulty variant: a wave of maxWindows + 1 pages.
BatchEndWide(start) == Min(start + maxWindows, actualTotalPages)

\* Math.min(i + this.maxWindows - 1, actualTotalPages)
BatchEnd(start) == Min(start + maxWindows - 1, actualTotalPages)

Batch == batchStart .. batchEnd

\* if (delay > this.options.batchDelay) await ...
WaitsDelay(d) == d > batchDelay

Settled(p) == task[p] \in {"none", "settled"}

InFlight(p) == task[p] \in {"chained", "fetching", "backoff"}

Drive(w, ids) == [windows EXCEPT ![w] = @ \cup ids]

Release(id) == [w \in DOMAIN windows |-> windows[w] \ {id}]

\* ------------------------------------------------------------------ Init
\* Outside runScraper there is no second session and nothing is returned.
IdleInternal == [pc |-> "none", allHashesSet |-> {}, failedPages |-> {}, uniqueHashes |-> {}]

NoResult == [external |-> {}, internal |-> {}, totalTime |-> 0]

IdleRun == [pc |-> "none", result |-> NoResult]

\* The fields of a session after the constructor, before scrappe() is called.
InitFields(windowsBound, pagesBound) ==
    /\ maxWindows \in 1 .. windowsBound
    /\ totalPages \in 1 .. pagesBound
    /\ windows = [w \in 0 .. maxWindows - 1 |-> {}]
    /\ detectedPages = 0
    /\ actualTotalPages = 0
    /\ batchStart = 0
    /\ batchEnd = 0
    /\ batchErrors = 0
    /\ errorCount = 0
    /\ delay = 0
    /\ task = [p \in 1 .. pagesBound |-> "none"]
    /\ attempt = [p \in 1 .. pagesBound |-> 0]
    /\ raced = [p \in 1 .. pagesBound |-> "none"]
    /\ failedPages = {}
    /\ processedPages = {}
    /\ uniqueHashes = {}
    /\ launches = [p \in 1 .. pagesBound |-> 0]
    /\ okPages = {}
    /\ okHashes = {}
    /\ longSeen = {}
    /\ backoffDelay = [p \in 1 .. pagesBound |-> 0]
    /\ destroyed = {}

\* A session constructed while the status file is absent: nothing it does
\* changes the file.
InitWith(windowsBound, pagesBound) ==
    /\ pc = "created"
    /\ InitFields(windowsBound, pagesBound)
    /\ cloudflarePassed = FALSE
    /\ allHashesSet = {}
    /\ pageHtml = NullContent
    /\ pageHashes = << >>
    /\ internal = IdleInternal
    /\ run = IdleRun

Init == InitWith(WindowsBound, PagesBound)

\* --------------------------------------------------------------- actions
\* scrappe() is called: detectTotalPages() loads page 1 in windows[0].
ScrappeStart ==
    /\ pc = "created"
    /\ pc' = "detect"
    /\ windows' = Drive(0, {0})
    /\ UNCHANGED << cloudflarePassed, parseVars, runVars, slotVars >>
    /\ UNCHANGED << maxWindows, totalPages, detectedPages, actualTotalPages,
                    batchStart, batchEnd, batchErrors, errorCount, delay, task,
                    attempt, raced, failedPages, processedPages, allHashesSet,
                    uniqueHashes, launches, okPages, okHashes, longSeen >>

DetectDone(detected) ==
    /\ pc = "detect"
    /\ pc' = "launch"
    /\ windows' = Release(0)
    /\ detectedPages' = detected
    /\ actualTotalPages' = ActualTotalPages(detected, totalPages)
    /\ batchStart' = 1
    /\ UNCHANGED << cloudflarePassed, parseVars, runVars, slotVars >>
    /\ UNCHANGED << maxWindows, totalPages, batchEnd, batchErrors, errorCount,
                    delay, task, attempt, raced, failedPages, processedPages,
                    allHashesSet, uniqueHashes, launches, okPages, okHashes,
                    longSeen >>

\* detectTotalPages: the script returns a page count (0 becomes 1).
DetectTotalPages == \E value \in DetectedValues : DetectDone(OrOne(value))

\* detectTotalPages: loadURL or executeJavaScript throws.
DetectTotalPagesFails == DetectDone(1)

\* One iteration of the while loop up to the await: processPage for each page.
\* The iteration starts at once, or when the inter-wave delay timer fires.
LaunchWave ==
    /\ pc \in {"launch", "delay"}
    /\ batchStart <= actualTotalPages
    /\ pc' = "await"
    /\ batchEnd' = BatchEnd(batchStart)
    /\ task' = [p \in Pages |->
                  IF p \in batchStart .. batchEnd' THEN "chained" ELSE task[p]]
    /\ raced' = [p \in Pages |->
                   IF p \in batchStart .. batchEnd' THEN "pending" ELSE raced[p]]
    /\ launches' = [p \in Pages |->
                      IF p \in batchStart .. batchEnd' THEN launches[p] + 1
                      ELSE launches[p]]
    /\ batchErrors' = 0
    /\ delay' = 0
    /\ UNCHANGED << cloudflarePassed, parseVars, runVars, slotVars >>
    /\ UNCHANGED << maxWindows, totalPages, windows, detectedPages,
                    actualTotalPages, batchStart, errorCount, attempt,
                    failedPages, processedPages, allHashesSet, uniqueHashes,
                    okPages, okHashes, longSeen >>

\* Faulty variant: the chain goes on only after a page that succeeded, as it
\* would if the page promise had no catch handler.
PreviousSucceeded(p) ==
    IF p <= maxWindows THEN TRUE
    ELSE task[p - maxWindows] = "settled" /\ p - maxWindows \in processedPages

\* activePromises.get(windowIndex) at launch: the promise of the page launched
\* on the same window one wave earlier, or Promise.resolve().
PreviousSettled(p) ==
    IF p <= maxWindows THEN TRUE ELSE task[p - maxWindows] = "settled"

\* The page promise runs: the slot's previous promise has settled and the
\* cooldown timer has fired; scrapePageSafe starts attempt 1.
StartTask(p) ==
    /\ task[p] = "chained"
    /\ PreviousSettled(p)
    /\ task' = [task EXCEPT ![p] = "fetching"]
    /\ attempt' = [attempt EXCEPT ![p] = 1]
    /\ windows' = Drive(WindowIndex(p), {p})
    /\ UNCHANGED << cloudflarePassed, parseVars, runVars, slotVars >>
    /\ UNCHANGED << pc, maxWindows, totalPages, detectedPages, actualTotalPages,
                    batchStart, batchEnd, batchErrors, errorCount, delay, raced,
                    failedPages, processedPages, allHashesSet, uniqueHashes,
                    launches, okPages, okHashes, longSeen >>

SawLong(p, outcome) ==
    IF outcome.error = "none" /\ outcome.content.present
       /\ outcome.content.len >= MinContentLength
    THEN longSeen \cup {p} ELSE longSeen

\* scrapePageSafe: an attempt before the last one is not accepted.
AttemptFails(p, outcome) ==
    /\ task[p] = "fetching"
    /\ ~SafeAccepts(scrapePage(outcome))
    /\ attempt[p] < maxRetries
    /\ task' = [task EXCEPT ![p] = "backoff"]
    /\ windows' = Release(p)
    /\ longSeen' = SawLong(p, outcome)
    /\ backoffDelay' =
           [backoffDelay EXCEPT
               ![p] = InlineDelay(attempt[p], ScrapePageCompletion(outcome))]
    /\ cloudflarePassed' = StatusAfter(cloudflarePassed, outcome)
    /\ UNCHANGED << parseVars, runVars, destroyed >>
    /\ UNCHANGED << pc, maxWindows, totalPages, detectedPages, actualTotalPages,
                    batchStart, batchEnd, batchErrors, errorCount, delay, attempt,
                    raced, failedPages, processedPages, allHashesSet,
                    uniqueHashes, launches, okPages, okHashes >>

\* scrapePageSafe: the delay between attempts is over.
NextAttempt(p) ==
    /\ task[p] = "backoff"
    /\ task' = [task EXCEPT ![p] = "fetching"]
    /\ attempt' = [attempt EXCEPT ![p] = attempt[p] + 1]
    /\ windows' = Drive(WindowIndex(p), {p})
    /\ backoffDelay' = [backoffDelay EXCEPT ![p] = 0]
    /\ UNCHANGED << cloudflarePassed, parseVars, runVars, destroyed >>
    /\ UNCHANGED << pc, maxWindows, totalPages, detectedPages, actualTotalPages,
                    batchStart, batchEnd, batchErrors, errorCount, delay, raced,
                    failedPages, processedPages, allHashesSet, uniqueHashes,
                    launches, okPages, okHashes, longSeen >>

\* What scrapePageSafe returns when the attempt in flight ends with outcome.
SafeResult(p, outcome) ==
    IF SafeAccepts(scrapePage(outcome)) THEN scrapePage(outcome) ELSE NullContent

\* The attempt in flight is the one that ends scrapePageSafe.
EndsTask(p, outcome) ==
    /\ task[p] = "fetching"
    /\ (SafeAccepts(scrapePage(outcome)) \/ attempt[p] >= maxRetries)

\* processPage: the second .then of the page promise.
TaskSettles(p, outcome) ==
    /\ pc # "retry"
    /\ EndsTask(p, outcome)
    /\ LET html == SafeResult(p, outcome)
           ok == TaskSucceeded(html)
           hashes == parseHTMLForHashes(html)
       IN  /\ allHashesSet' = IF ok THEN MergeHashes(allHashesSet, hashes)
                              ELSE allHashesSet
           /\ processedPages' = IF ok THEN processedPages \cup {p}
                                ELSE processedPages
           /\ failedPages' = FailedAfterTask(failedPages, p, ok)
           /\ okPages' = IF ok THEN okPages \cup {p} ELSE okPages
           /\ okHashes' = IF ok THEN okHashes \cup Range(hashes) ELSE okHashes
    /\ task' = [task EXCEPT ![p] = "settled"]
    /\ raced' = [raced EXCEPT ![p] = IF @ = "pending" THEN "fulfilled" ELSE @]
    /\ windows' = Release(p)
    /\ longSeen' = SawLong(p, outcome)
    /\ attempt' = [attempt EXCEPT ![p] = 0]
    /\ cloudflarePassed' = StatusAfter(cloudflarePassed, outcome)
    /\ UNCHANGED << parseVars, runVars, slotVars >>
    /\ UNCHANGED << pc, maxWindows, totalPages, detectedPages, actualTotalPages,
                    batchStart, batchEnd, batchErrors, errorCount, delay,
                    uniqueHashes, launches >>

\* The hard per-task timer of the wave wins the race for page p.
BatchTimeout(p) ==
    /\ pc = "await"
    /\ p \in Batch
    /\ raced[p] = "pending"
    /\ raced' = [raced EXCEPT ![p] = "rejected"]
    /\ UNCHANGED << cloudflarePassed, parseVars, runVars, slotVars >>
    /\ UNCHANGED << pc, maxWindows, totalPages, windows, detectedPages,
                    actualTotalPages, batchStart, batchEnd, batchErrors,
                    errorCount, delay, task, attempt, failedPages,
                    processedPages, allHashesSet, uniqueHashes, launches,
                    okPages, okHashes, longSeen >>

\* scrappe: from the batch results to the adaptive delay, for a wave that
\* ended at page end with the given number of rejected results.
AfterWave(end, errors) ==
    LET more == end + 1 <= actualTotalPages
        d == InterWaveDelay(errors, errorCount + errors)
    IN  /\ batchErrors' = errors
        /\ errorCount' = errorCount + errors
        /\ batchStart' = end + 1
        /\ delay' = IF more THEN d ELSE 0
        /\ pc' = IF ~more THEN "final"
                 ELSE IF WaitsDelay(d) THEN "delay" ELSE "launch"

\* Promise.allSettled of the wave resolves: count errors, choose the delay.
WaveSettled ==
    /\ pc = "await"
    /\ \A p \in Batch : raced[p] # "pending"
    /\ AfterWave(batchEnd, Cardinality({p \in Batch : raced[p] = "rejected"}))
    /\ raced' = [p \in Pages |-> "none"]
    /\ UNCHANGED << cloudflarePassed, parseVars, runVars, slotVars >>
    /\ UNCHANGED << maxWindows, totalPages, windows, detectedPages,
                    actualTotalPages, batchEnd, task, attempt,
                    failedPages, processedPages, allHashesSet, uniqueHashes,
                    launches, okPages, okHashes, longSeen >>

\* activePromises.get(w): the page promise stored last for window w, 0 while
\* it is still the initial Promise.resolve().
ActivePromise(w) ==
    LET on == {p \in Pages : launches[p] > 0 /\ WindowIndex(p) = w}
    IN  IF on = {} THEN 0 ELSE CHOOSE p \in on : \A q \in on : q <= p

\* Faulty variant: the final allSettled is skipped.
StragglersIgnored == pc = "final"

\* The final allSettled over activePromises.values() resolves; uniqueHashes
\* is built.
StragglersSettled ==
    /\ pc = "final"
    /\ \A w \in DOMAIN windows :
           IF ActivePromise(w) = 0 THEN TRUE
           ELSE task[ActivePromise(w)] = "settled"

\* scrappe: nothing failed, return uniqueHashes.
ReturnWithoutRetry ==
    /\ StragglersSettled
    /\ failedPages = {}
    /\ pc' = "done"
    /\ uniqueHashes' = allHashesSet
    /\ UNCHANGED << cloudflarePassed, parseVars, runVars, slotVars >>
    /\ UNCHANGED << maxWindows, totalPages, windows, detectedPages,
                    actualTotalPages, batchStart, batchEnd, batchErrors,
                    errorCount, delay, task, attempt, raced, failedPages,
                    processedPages, allHashesSet, launches, okPages, okHashes,
                    longSeen >>

\* retryFailedPages: every failed page starts scrapePageSafe at once.
retryFailedPages ==
    /\ StragglersSettled
    /\ failedPages # {}
    /\ pc' = "retry"
    /\ uniqueHashes' = allHashesSet
    /\ task' = [p \in Pages |-> IF p \in failedPages THEN "fetching" ELSE task[p]]
    /\ attempt' = [p \in Pages |-> IF p \in failedPages THEN 1 ELSE attempt[p]]
    /\ windows' = [w \in DOMAIN windows |->
                     windows[w] \cup {p \in failedPages : WindowIndex(p) = w}]
    /\ UNCHANGED << cloudflarePassed, parseVars, runVars, slotVars >>
    /\ UNCHANGED << maxWindows, totalPages, detectedPages, actualTotalPages,
                    batchStart, batchEnd, batchErrors, errorCount, delay, raced,
                    failedPages, processedPages, allHashesSet, launches,
                    okPages, okHashes, longSeen >>

\* Faulty variant: the page leaves the registry whatever the retry gave.
FailedAfterRetryForgets(failed, page, ok) == failed \ {page}

\* retryFailedPages: this.failedPages.delete(page) on success.
FailedAfterRetry(failed, page, ok) == IF ok THEN failed \ {page} ELSE failed

\* retryFailedPages: the retry promise of page p resolves.
RetrySettles(p, outcome) ==
    /\ pc = "retry"
    /\ EndsTask(p, outcome)
    /\ LET html == SafeResult(p, outcome)
           ok == TaskSucceeded(html)
           hashes == parseHTMLForHashes(html)
       IN  /\ allHashesSet' = IF ok THEN MergeHashes(allHashesSet, hashes)
                              ELSE allHashesSet
           /\ failedPages' = FailedAfterRetry(failedPages, p, ok)
           /\ okPages' = IF ok THEN okPages \cup {p} ELSE okPages
           /\ okHashes' = IF ok THEN okHashes \cup Range(hashes) ELSE okHashes
    /\ task' = [task EXCEPT ![p] = "settled"]
    /\ windows' = Release(p)
    /\ longSeen' = SawLong(p, outcome)
    /\ attempt' = [attempt EXCEPT ![p] = 0]
    /\ cloudflarePassed' = StatusAfter(cloudflarePassed, outcome)
    /\ UNCHANGED << parseVars, runVars, slotVars >>
    /\ UNCHANGED << pc, maxWindows, totalPages, detectedPages, actualTotalPages,
                    batchStart, batchEnd, batchErrors, errorCount, delay,
                    raced, processedPages, uniqueHashes, launches >>

\* retryFailedPages returns and scrappe returns uniqueHashes.
ReturnAfterRetry ==
    /\ pc = "retry"
    /\ \A p \in Pages : Settled(p)
    /\ pc' = "done"
    /\ UNCHANGED << cloudflarePassed, parseVars, runVars, slotVars >>
    /\ UNCHANGED << maxWindows, totalPages, windows, detectedPages,
                    actualTotalPages, batchStart, batchEnd, batchErrors,
                    errorCount, delay, task, attempt, raced, failedPages,
                    processedPages, allHashesSet, uniqueHashes, launches,
                    okPages, okHashes, longSeen >>

\* cleanup(): the caller closes every window that is not destroyed yet.
\* scrappe() itself never calls it.
cleanup ==
    /\ pc = "done"
    /\ destroyed # DOMAIN windows
    /\ destroyed' = DOMAIN windows
    /\ UNCHANGED << cloudflarePassed, parseVars, runVars, backoffDelay >>
    /\ UNCHANGED << pc, maxWindows, totalPages, windows, detectedPages,
                    actualTotalPages, batchStart, batchEnd, batchErrors,
                    errorCount, delay, task, attempt, raced, failedPages,
                    processedPages, allHashesSet, uniqueHashes, launches,
                    okPages, okHashes, longSeen >>

Next ==
    \/ ScrappeStart
    \/ DetectTotalPages
    \/ DetectTotalPagesFails
    \/ LaunchWave
    \/ \E p \in Pages : StartTask(p)
    \/ \E p \in Pages, o \in Outcomes : AttemptFails(p, o)
    \/ \E p \in Pages : NextAttempt(p)
    \/ \E p \in Pages, o \in Outcomes : TaskSettles(p, o)
    \/ \E p \in Pages : BatchTimeout(p)
    \/ WaveSettled
    \/ ReturnWithoutRetry
    \/ retryFailedPages
    \/ \E p \in Pages, o \in Outcomes : RetrySettles(p, o)
    \/ ReturnAfterRetry
    \/ cleanup

Spec == Init /\ [][Next]_vars

(***************************************************************************)
(* The same session constructed by runScraper, which leaves the status     *)
(* file in place before it constructs the sessions.                        *)
(***************************************************************************)
InitStatus ==
    /\ pc = "created"
    /\ InitFields(WindowsBound, PagesBound)
    /\ cloudflarePassed = TRUE
    /\ allHashesSet = {}
    /\ pageHtml = NullContent
    /\ pageHashes = << >>
    /\ internal = IdleInternal
    /\ run = IdleRun

SpecStatus == InitStatus /\ [][Next]_vars

(***************************************************************************)
(* Progress. Every step but the end of detection is forced by the caller   *)
(* or by a timer: scrapePage races loadURL against pageTimeout and          *)
(* executeJavaScript against a 5 s timer, and the cooldown, the delay       *)
(* between attempts and the inter-wave delay are timers. detectTotalPages   *)
(* awaits loadURL and executeJavaScript with no timer, so its end depends   *)
(* on the renderer alone and is not forced.                                 *)
(***************************************************************************)
ForcedStep ==
    \/ ScrappeStart
    \/ LaunchWave
    \/ \E p \in Pages : StartTask(p)
    \/ \E p \in Pages, o \in Outcomes : AttemptFails(p, o)
    \/ \E p \in Pages : NextAttempt(p)
    \/ \E p \in Pages, o \in Outcomes : TaskSettles(p, o)
    \/ WaveSettled
    \/ ReturnWithoutRetry
    \/ retryFailedPages
    \/ \E p \in Pages, o \in Outcomes : RetrySettles(p, o)
    \/ ReturnAfterRetry

SpecLive == Init /\ [][Next]_vars /\ WF_vars(ForcedStep)

(***************************************************************************)
(* The wave loop alone, for waves as large as the delay thresholds need:   *)
(* a wave is one step, and of its page tasks only the number that lost the *)
(* race against the batch timeout is kept.                                 *)
(***************************************************************************)
InitWaves == InitWith(WaveWindowsBound, WavePagesBound)

\* One whole iteration of the while loop: launch, settle, choose the delay.
RunWave(errors) ==
    /\ pc \in {"launch", "delay"}
    /\ batchStart <= actualTotalPages
    /\ errors \in 0 .. (BatchEnd(batchStart) - batchStart + 1)
    /\ batchEnd' = BatchEnd(batchStart)
    /\ launches' = [p \in Pages |->
                      IF p \in batchStart .. BatchEnd(batchStart)
                      THEN launches[p] + 1 ELSE launches[p]]
    /\ task' = [p \in Pages |->
                  IF p \in batchStart .. BatchEnd(batchStart) THEN "settled"
                  ELSE task[p]]
    /\ AfterWave(BatchEnd(batchStart), errors)
    /\ UNCHANGED << cloudflarePassed, parseVars, runVars, slotVars >>
    /\ UNCHANGED << maxWindows, totalPages, windows, detectedPages,
                    actualTotalPages, attempt, raced, failedPages,
                    processedPages, allHashesSet, uniqueHashes, okPages,
                    okHashes, longSeen >>

NextWaves ==
    \/ ScrappeStart
    \/ DetectTotalPages
    \/ DetectTotalPagesFails
    \/ \E errors \in 0 .. WaveWindowsBound : RunWave(errors)

SpecWaves == InitWaves /\ [][NextWaves]_vars

(***************************************************************************)
(* The wave loop with the outcome of every page task: a wave is one step,  *)
(* in which any of its tasks may end failed and any may lose the race      *)
(* against the batch timeout.                                              *)
(***************************************************************************)
InitTally == InitWith(TallyWindowsBound, TallyPagesBound)

\* batchResults.filter(r => r.status === 'rejected').length: the page promise
\* catches every error, so only a lost race gives a rejected result.
RejectedResults(failed, timedOut) == Cardinality(timedOut)

\* One whole iteration of the while loop, with the tasks of the pages in
\* failed ending in failedPages and those of timedOut losing the race.
RunWaveTally(failed, timedOut) ==
    /\ pc \in {"launch", "delay"}
    /\ batchStart <= actualTotalPages
    /\ failed \subseteq batchStart .. BatchEnd(batchStart)
    /\ timedOut \subseteq batchStart .. BatchEnd(batchStart)
    /\ batchEnd' = BatchEnd(batchStart)
    /\ launches' = [p \in Pages |->
                      IF p \in batchStart .. BatchEnd(batchStart)
                      THEN launches[p] + 1 ELSE launches[p]]
    /\ task' = [p \in Pages |->
                  IF p \in batchStart .. BatchEnd(batchStart) THEN "settled"
                  ELSE task[p]]
    /\ failedPages' = failedPages \cup failed
    /\ processedPages' =
           processedPages \cup ((batchStart .. BatchEnd(batchStart)) \ failed)
    /\ AfterWave(BatchEnd(batchStart), RejectedResults(failed, timedOut))
    /\ UNCHANGED << cloudflarePassed, parseVars, runVars, slotVars >>
    /\ UNCHANGED << maxWindows, totalPages, windows, detectedPages,
                    actualTotalPages, attempt, raced, allHashesSet,
                    uniqueHashes, okPages, okHashes, longSeen >>

NextTally ==
    \/ ScrappeStart
    \/ DetectTotalPages
    \/ DetectTotalPagesFails
    \/ \E failed \in SUBSET Pages, timedOut \in SUBSET Pages :
           RunWaveTally(failed, timedOut)

SpecTally == InitTally /\ [][NextTally]_vars

(***************************************************************************)
(* parseHTMLForHashes and the merge of its result, applied to one page     *)
(* whose content is any list of up to LinksBound pieces.                   *)
(***************************************************************************)
HtmlInputs ==
    {[present |-> TRUE, len |-> MinContentLength + 1, pats |-> {}, links |-> l] :
        l \in UNION {[1 .. n -> Tokens] : n \in 0 .. LinksBound}}

InitParse ==
    /\ pc = "parse"
    /\ InitFields(1, 1)
    /\ cloudflarePassed = FALSE
    /\ allHashesSet \in SUBSET Hashes
    /\ pageHtml \in HtmlInputs
    /\ pageHashes = << >>
    /\ internal = IdleInternal
    /\ run = IdleRun

\* processPage, if (result.htmlContent): parse, then add every hash to the set.
ParseAndMerge ==
    /\ pc = "parse"
    /\ pc' = "merged"
    /\ pageHashes' = parseHTMLForHashes(pageHtml)
    /\ allHashesSet' = MergeHashes(allHashesSet, pageHashes')
    /\ UNCHANGED << cloudflarePassed, pageHtml, runVars, slotVars >>
    /\ UNCHANGED << maxWindows, totalPages, windows, detectedPages,
                    actualTotalPages, batchStart, batchEnd, batchErrors,
                    errorCount, delay, task, attempt, raced, failedPages,
                    processedPages, uniqueHashes, launches, okPages, okHashes,
                    longSeen >>

NextParse == ParseAndMerge

SpecParse == InitParse /\ [][NextParse]_vars

\* Pages with runs of MatchLimit - 1 and of MatchLimit copies of one link.
CapTokens ==
    {LinkAA, LinkBB, [LinkAA EXCEPT !.times = MatchLimit - 1],
     [LinkAA EXCEPT !.times = MatchLimit]}

CapInputs ==
    {[present |-> TRUE, len |-> MinContentLength + 1, pats |-> {}, links |-> l] :
        l \in UNION {[1 .. n -> CapTokens] : n \in 0 .. LinksBound}}

InitCap ==
    /\ pc = "parse"
    /\ InitFields(1, 1)
    /\ cloudflarePassed = FALSE
    /\ allHashesSet \in SUBSET Hashes
    /\ pageHtml \in CapInputs
    /\ pageHashes = << >>
    /\ internal = IdleInternal
    /\ run = IdleRun

SpecCap == InitCap /\ [][NextParse]_vars

(***************************************************************************)
(* runScraper: the external and the internal session side by side, each    *)
(* with one page and each reduced to three steps: its main pass, the end   *)
(* of the main pass, its Retry Pass. The external session is the one       *)
(* above; InternalScrapper is the same session for the other category.     *)
(***************************************************************************)
InternalHashes == {"0xBB", "0xCC"}

\* What scrapePageSafe can return for the page of the external session.
ExternalResults ==
    {NullContent}
    \cup {[present |-> TRUE, len |-> MinContentLength + 1, pats |-> {}, links |-> l] :
             l \in LinkLists}

\* The outcome of the page of the internal session: failed, or its identifiers.
InternalResults ==
    {[ok |-> FALSE, hashes |-> {}], [ok |-> TRUE, hashes |-> {"0xBB"}],
     [ok |-> TRUE, hashes |-> InternalHashes]}

\* Math.round((totalEndTime - totalStartTime) / 1000)
ElapsedSeconds == {0, 1}

\* Faulty variant: identifiers of the external list are dropped from the
\* internal list.
RunResultDeduped(externalHashes, internalHashes, totalSeconds) ==
    [external |-> externalHashes, internal |-> internalHashes \ externalHashes,
     totalTime |-> totalSeconds]

\* return { external: externalHashes, internal: internalHashes, totalTime }
RunResult(externalHashes, internalHashes, totalSeconds) ==
    [external |-> externalHashes, internal |-> internalHashes,
     totalTime |-> totalSeconds]

InitRun ==
    /\ pc = "created"
    /\ InitFields(1, 1)
    /\ cloudflarePassed = TRUE
    /\ allHashesSet = {}
    /\ pageHtml = NullContent
    /\ pageHashes = << >>
    /\ internal = [IdleInternal EXCEPT !.pc = "created"]
    /\ run = [pc |-> "constructed", result |-> NoResult]

\* Promise.all([externalScrapper.scrappe(), internalScrapper.scrappe()]):
\* both calls are made before runScraper awaits.
RunScraperStarts ==
    /\ run.pc = "constructed"
    /\ run' = [run EXCEPT !.pc = "awaiting"]
    /\ pc' = "await"
    /\ internal' = [internal EXCEPT !.pc = "await"]
    /\ UNCHANGED << cloudflarePassed, parseVars, slotVars >>
    /\ UNCHANGED << maxWindows, totalPages, windows, detectedPages,
                    actualTotalPages, batchStart, batchEnd, batchErrors,
                    errorCount, delay, task, attempt, raced, failedPages,
                    processedPages, allHashesSet, uniqueHashes, launches,
                    okPages, okHashes, longSeen >>

\* The main pass of the external session: the task of page 1 ends.
ExternalMainPass(htmlContent) ==
    /\ pc = "await"
    /\ pc' = "final"
    /\ LET ok == TaskSucceeded(htmlContent)
           hashes == parseHTMLForHashes(htmlContent)
       IN  /\ allHashesSet' = IF ok THEN MergeHashes(allHashesSet, hashes)
                              ELSE allHashesSet
           /\ processedPages' = IF ok THEN processedPages \cup {1}
                                ELSE processedPages
           /\ failedPages' = FailedAfterTask(failedPages, 1, ok)
    /\ UNCHANGED << cloudflarePassed, parseVars, runVars, slotVars >>
    /\ UNCHANGED << maxWindows, totalPages, windows, detectedPages,
                    actualTotalPages, batchStart, batchEnd, batchErrors,
                    errorCount, delay, task, attempt, raced, uniqueHashes,
                    launches, okPages, okHashes, longSeen >>

\* uniqueHashes is built; scrappe() returns it at once or after the Retry Pass.
ExternalEndsMainPass ==
    /\ pc = "final"
    /\ pc' = IF failedPages = {} THEN "done" ELSE "retry"
    /\ uniqueHashes' = allHashesSet
    /\ UNCHANGED << cloudflarePassed, parseVars, runVars, slotVars >>
    /\ UNCHANGED << maxWindows, totalPages, windows, detectedPages,
                    actualTotalPages, batchStart, batchEnd, batchErrors,
                    errorCount, delay, task, attempt, raced, failedPages,
                    processedPages, allHashesSet, launches, okPages, okHashes,
                    longSeen >>

\* The Retry Pass of the external session, then the return.
ExternalRetry(htmlContent) ==
    /\ pc = "retry"
    /\ pc' = "done"
    /\ LET ok == TaskSucceeded(htmlContent)
           hashes == parseHTMLForHashes(htmlContent)
       IN  /\ allHashesSet' = IF ok THEN MergeHashes(allHashesSet, hashes)
                              ELSE allHashesSet
           /\ failedPages' = FailedAfterRetry(failedPages, 1, ok)
    /\ UNCHANGED << cloudflarePassed, parseVars, runVars, slotVars >>
    /\ UNCHANGED << maxWindows, totalPages, windows, detectedPages,
                    actualTotalPages, batchStart, batchEnd, batchErrors,
                    errorCount, delay, task, attempt, raced, processedPages,
                    uniqueHashes, launches, okPages, okHashes, longSeen >>

sessionVars ==
    << pc, maxWindows, totalPages, windows, detectedPages, actualTotalPages,
       batchStart, batchEnd, batchErrors, errorCount, delay, task, attempt,
       raced, failedPages, processedPages, allHashesSet, uniqueHashes,
       launches, okPages, okHashes, longSeen >>

\* The main pass of the internal session: the task of its page ends.
InternalMainPass(result) ==
    /\ internal.pc = "await"
    /\ internal' =
           [internal EXCEPT
               !.pc = "final",
               !.allHashesSet = IF result.ok THEN @ \cup result.hashes ELSE @,
               !.failedPages = IF result.ok THEN @ ELSE @ \cup {1}]
    /\ UNCHANGED << sessionVars, cloudflarePassed, parseVars, run, slotVars >>

\* The internal session returns its hash set, at once or after its Retry Pass.
InternalEndsMainPass ==
    /\ internal.pc = "final"
    /\ internal' =
           [internal EXCEPT
               !.pc = IF internal.failedPages = {} THEN "done" ELSE "retry",
               !.uniqueHashes = internal.allHashesSet]
    /\ UNCHANGED << sessionVars, cloudflarePassed, parseVars, run, slotVars >>

InternalRetry(result) ==
    /\ internal.pc = "retry"
    /\ internal' =
           [internal EXCEPT
               !.pc = "done",
               !.allHashesSet = IF result.ok THEN @ \cup result.hashes ELSE @,
               !.uniqueHashes = IF result.ok THEN @ \cup result.hashes ELSE @,
               !.failedPages = IF result.ok THEN @ \ {1} ELSE @]
    /\ UNCHANGED << sessionVars, cloudflarePassed, parseVars, run, slotVars >>

\* Promise.all resolves once both promises are fulfilled; runScraper returns.
RunScraperResolves(totalSeconds) ==
    /\ run.pc = "awaiting"
    /\ pc = "done"
    /\ internal.pc = "done"
    /\ run' = [pc |-> "resolved",
               result |-> RunResult(uniqueHashes, internal.uniqueHashes, totalSeconds)]
    /\ UNCHANGED << sessionVars, cloudflarePassed, parseVars, internal, slotVars >>

NextRun ==
    \/ RunScraperStarts
    \/ \E c \in ExternalResults : ExternalMainPass(c)
    \/ ExternalEndsMainPass
    \/ \E c \in ExternalResults : ExternalRetry(c)
    \/ \E r \in InternalResults : InternalMainPass(r)
    \/ InternalEndsMainPass
    \/ \E r \in InternalResults : InternalRetry(r)
    \/ \E t \in ElapsedSeconds : RunScraperResolves(t)

SpecRun == InitRun /\ [][NextRun]_vars

(***************************************************************************)
(* runScraper from the status check to its exit: the challenge window with *)
(* its 30 s timer, its polling chain and its closed event, then the two    *)
(* sessions as one step, then the finally block.                           *)
(***************************************************************************)
\* fs.existsSync(CLOUDFLARE_STATUS_FILE)
hasPassedCloudflare(passed) == passed

\* fs.writeFileSync(CLOUDFLARE_STATUS_FILE, timestamp)
markCloudflareAsPassed(passed) == TRUE

\* What executeJavaScript of the table check can give: the table is there, it
\* is not, or the call rejects.
TableAnswers == {"table", "none", "error"}

\* What the two sessions can return to Promise.all.
ExternalLists == SUBSET Hashes

InternalLists == SUBSET InternalHashes

\* resolve() of the promise runScraper awaits: only the first call counts.
Resolve(r) == [r EXCEPT !.pc = IF @ = "waiting" THEN "sessions" ELSE @]

\* resolved = true; markCloudflareAsPassed(); resolve()
MarkAndResolve(r) ==
    Resolve([r EXCEPT !.resolved = TRUE, !.marks = @ + 1])

\* clearTimeout(timeout)
ClearTimeout(r) ==
    [r EXCEPT !.timeout = IF @ = "armed" THEN "cleared" ELSE @]

\* testWindow.close(): the window starts to close.
CloseTestWindow(r) ==
    [r EXCEPT !.testWindow = IF @ = "open" THEN "closing" ELSE @]

mainVars == << sessionVars, parseVars, internal, slotVars >>

InitMain ==
    /\ pc = "unbuilt"
    /\ InitFields(1, 1)
    /\ cloudflarePassed \in BOOLEAN
    /\ allHashesSet = {}
    /\ pageHtml = NullContent
    /\ pageHashes = << >>
    /\ internal = IdleInternal
    /\ run = [pc |-> "start", result |-> NoResult, skipTestWindow |-> FALSE,
              reads |-> 0, testWindow |-> "none", resolved |-> FALSE,
              timeout |-> "none", poll |-> "none", marks |-> 0, quit |-> FALSE]

\* const skipTestWindow = hasPassedCloudflare(); the test window is created
\* and loadURL awaited only if the file is absent.
CheckStatus ==
    /\ run.pc = "start"
    /\ LET skip == hasPassedCloudflare(cloudflarePassed)
       IN  run' = [run EXCEPT !.skipTestWindow = skip,
                              !.reads = @ + 1,
                              !.pc = IF skip THEN "sessions" ELSE "loading",
                              !.testWindow = IF skip THEN @ ELSE "open"]
    /\ UNCHANGED << mainVars, cloudflarePassed >>

\* await testWindow.loadURL(testUrl) resolves: the timer is armed, the closed
\* handler registered and the first table check scheduled.
LoadURLResolves ==
    /\ run.pc = "loading"
    /\ run' = [run EXCEPT !.pc = "waiting", !.timeout = "armed",
                          !.poll = "scheduled"]
    /\ UNCHANGED << mainVars, cloudflarePassed >>

\* await testWindow.loadURL(testUrl) rejects: runScraper rejects, outside its
\* try block.
LoadURLRejects ==
    /\ run.pc = "loading"
    /\ run' = [run EXCEPT !.pc = "rejected"]
    /\ UNCHANGED << mainVars, cloudflarePassed >>

\* The 30 s timer fires.
TimeoutFires ==
    /\ run.timeout = "armed"
    /\ LET fired == [run EXCEPT !.timeout = "fired"]
       IN  IF run.resolved
           THEN run' = fired /\ UNCHANGED cloudflarePassed
           ELSE /\ run' = MarkAndResolve(CloseTestWindow(fired))
                /\ cloudflarePassed' = markCloudflareAsPassed(cloudflarePassed)
    /\ UNCHANGED mainVars

\* checkTable is called: it returns at once if resolved, otherwise it awaits
\* executeJavaScript.
CheckTableStarts ==
    /\ run.poll = "scheduled"
    /\ run' = [run EXCEPT !.poll = IF run.resolved THEN "stopped" ELSE "inflight"]
    /\ UNCHANGED << mainVars, cloudflarePassed >>

\* The awaited executeJavaScript settles. resolved is not tested again before
\* the tableExists branch; a destroyed window gives no answer but an error.
CheckTableReturns(answer) ==
    /\ run.poll = "inflight"
    /\ run.testWindow = "closed" => answer = "error"
    /\ IF answer = "table"
       THEN /\ run' = MarkAndResolve(
                          CloseTestWindow(ClearTimeout([run EXCEPT !.poll = "stopped"])))
            /\ cloudflarePassed' = markCloudflareAsPassed(cloudflarePassed)
       ELSE /\ run' = [run EXCEPT
                          !.poll = IF run.resolved THEN "stopped" ELSE "scheduled"]
            /\ UNCHANGED cloudflarePassed
    /\ UNCHANGED mainVars

\* The closed event of the test window: the user closed it while runScraper
\* waits, or a close the code asked for has completed.
WindowClosed ==
    /\ \/ run.testWindow = "open" /\ run.pc = "waiting"
       \/ run.testWindow = "closing"
    /\ LET gone == [run EXCEPT !.testWindow = "closed"]
       IN  IF run.resolved
           THEN run' = gone /\ UNCHANGED cloudflarePassed
           ELSE /\ run' = MarkAndResolve(ClearTimeout(gone))
                /\ cloudflarePassed' = markCloudflareAsPassed(cloudflarePassed)
    /\ UNCHANGED mainVars

\* try: both sessions are built and run, the result object is returned;
\* finally: electronApp.quit().
SessionsReturn(externalHashes, internalHashes, totalSeconds) ==
    /\ run.pc = "sessions"
    /\ run' = [run EXCEPT
                  !.pc = "returned",
                  !.result = RunResult(externalHashes, internalHashes, totalSeconds),
                  !.quit = TRUE]
    /\ UNCHANGED << mainVars, cloudflarePassed >>

\* try: a constructor throws or Promise.all rejects; catch: throw error;
\* finally: electronApp.quit().
SessionsThrow ==
    /\ run.pc = "sessions"
    /\ run' = [run EXCEPT !.pc = "rejected", !.quit = TRUE]
    /\ UNCHANGED << mainVars, cloudflarePassed >>

NextMain ==
    \/ CheckStatus
    \/ LoadURLResolves
    \/ LoadURLRejects
    \/ TimeoutFires
    \/ CheckTableStarts
    \/ \E answer \in TableAnswers : CheckTableReturns(answer)
    \/ WindowClosed
    \/ \E e \in ExternalLists, i \in InternalLists, t \in ElapsedSeconds :
           SessionsReturn(e, i, t)
    \/ SessionsThrow

SpecMain == InitMain /\ [][NextMain]_vars

(***************************************************************************)
(* Claims                                                                  *)
(***************************************************************************)
MainPassEnded == pc \in {"retry", "done"}

\* C1: the list scrappe() returns equals the set of distinct identifiers of
\* all pages that reached Ok in the main pass or in the Retry Pass.
C1_ReturnedEqualsOkHashes == pc = "done" => uniqueHashes = okHashes

\* C2: when scrappe() returns, every page of 1..actualTotalPages has either
\* contributed its identifiers or is in failedPages.
C2_Completeness ==
    pc = "done" =>
        \A p \in 1 .. actualTotalPages : p \in okPages \/ p \in failedPages

C2_Witness ==
    /\ pc = "done"
    /\ okPages \ processedPages # {}
    /\ failedPages # {}

\* C3: at every instant at most one task drives any window.
C3_SlotExclusive == \A w \in DOMAIN windows : Cardinality(windows[w]) <= 1

\* C4: the number of fetches in flight never exceeds maxWindows.
C4_InFlightAtMostMaxWindows ==
    Cardinality(UNION {windows[w] : w \in DOMAIN windows}) <= maxWindows

\* C5 as stated: a page is in at most one of {in flight, processedPages,
\* failedPages}.
C5_AtMostOneState ==
    \A p \in Pages :
        /\ ~(InFlight(p) /\ p \in processedPages)
        /\ ~(InFlight(p) /\ p \in failedPages)
        /\ ~(p \in processedPages /\ p \in failedPages)

\* C5 amended: processedPages and failedPages are disjoint; a page in flight
\* is never in processedPages; in the main pass it is not in failedPages, and
\* in the Retry Pass it is still listed in failedPages.
C5_AtMostOneStateOutsideRetry ==
    \A p \in Pages :
        /\ ~(p \in processedPages /\ p \in failedPages)
        /\ InFlight(p) => p \notin processedPages
        /\ InFlight(p) /\ pc # "retry" => p \notin failedPages
        /\ InFlight(p) /\ pc = "retry" => p \in failedPages

C5_Witness ==
    /\ pc = "retry"
    /\ processedPages # {}
    /\ \E p \in Pages : task[p] = "fetching" /\ attempt[p] = 2 /\ p \in failedPages

\* C6: allHashesSet never shrinks: every step leaves it alone or inserts.
C6_HashSetOnlyGrows == [][allHashesSet \subseteq allHashesSet']_vars

C6_Witness ==
    /\ pc = "retry"
    /\ uniqueHashes = {"0xAA"}
    /\ allHashesSet = {"0xAA", "0xBB"}

\* C7: actualTotalPages is the smaller of the requested and the detected page
\* count, and the main pass launches exactly the pages 1..actualTotalPages,
\* each once.
C7_PageBudget ==
    LET smaller == IF detectedPages < totalPages THEN detectedPages ELSE totalPages
    IN  /\ pc \notin {"created", "detect"} => actualTotalPages = smaller
        /\ \A p \in Pages : launches[p] <= 1
        /\ \A p \in Pages : launches[p] = 1 => p <= smaller
        /\ pc \in {"final", "retry", "done"} =>
               {p \in Pages : launches[p] = 1} = 1 .. smaller

C7_Witness ==
    /\ pc = "done"
    /\ detectedPages = 1
    /\ totalPages > 1
    /\ launches[1] = 1

AnotherWaveRemains == pc \in {"launch", "delay"} /\ batchStart > 1

DelayTable(errors) ==
    IF errors > 5 THEN 2000 ELSE IF errors > 2 THEN 800 ELSE 100

\* C8 as stated: after a wave settles and another remains, the scheduler waits
\* the delay the table gives for the wave's error count.
C8_WaitsTableDelay ==
    AnotherWaveRemains => pc = "delay" /\ delay = DelayTable(batchErrors)

\* C8 amended: the delay chosen is the table's value for the error count of
\* the wave that just settled, and it is waited only when it exceeds the base
\* delay: with 2 or fewer errors the next wave is launched without waiting.
C8_DelayChosenWaitedAboveBase ==
    AnotherWaveRemains =>
        /\ delay = DelayTable(batchErrors)
        /\ pc = "delay" <=> batchErrors > 2

C8_Witness ==
    /\ pc = "delay"
    /\ batchErrors = 5
    /\ errorCount = 11
    /\ delay = 800

\* C9: every fetch for page p drives window (p - 1) mod maxWindows; with two
\* windows pages 1..4 map to 0,1,0,1.
C9_SlotRouting ==
    /\ \A w \in DOMAIN windows :
           \A p \in windows[w] \ {0} : w = (p - 1) % maxWindows
    /\ maxWindows = 2 =>
           << WindowIndex(1), WindowIndex(2), WindowIndex(3), WindowIndex(4) >>
               = << 0, 1, 0, 1 >>

C9_Witness ==
    /\ pc = "retry"
    /\ maxWindows = 2
    /\ windows[0] = {1}
    /\ windows[1] = {2}

\* C10: a page that never received 500 characters or more has contributed
\* nothing, and is in failedPages once the main pass has ended.
C10_ShortPageFails ==
    \A p \in Pages :
        p \notin longSeen =>
            /\ p \notin okPages
            /\ MainPassEnded /\ p <= actualTotalPages => p \in failedPages

C10_Witness ==
    /\ pc = "done"
    /\ \E p \in failedPages : p \notin longSeen
    /\ okPages # {}

\* A step in which an attempt for page p ends with content that holds a block
\* signature.
BlockedAttempt(p, o) ==
    /\ o.error = "none"
    /\ o.content.pats # {}
    /\ (AttemptFails(p, o) \/ TaskSettles(p, o) \/ RetrySettles(p, o))

\* C11: content that holds a block signature contributes no identifiers and,
\* when it ends the task, leaves the page in failedPages; and whenever the
\* content holds 'cloudflare', with or without other signatures, the status
\* file is cleared.
C11_BlockedFailsAndClears ==
    [][\A p \in Pages, o \in Outcomes :
          BlockedAttempt(p, o) =>
              /\ allHashesSet' = allHashesSet
              /\ p \notin processedPages'
              /\ task'[p] = "settled" => p \in failedPages'
              /\ "cloudflare" \in o.content.pats => ~cloudflarePassed']_vars

\* C12: the main-pass task of a page, straggler or not, never overlaps the
\* Retry-Pass task of that page: a page is in failedPages only once its
\* main-pass task has settled, and the Retry Pass starts only when no
\* main-pass task is left in flight.
C12_MainAndRetryNeverOverlap ==
    [][/\ \A p \in failedPages : pc # "retry" => task[p] = "settled"
       /\ pc # "retry" /\ pc' = "retry" => \A p \in Pages : Settled(p)
       /\ pc = "retry" => \A p \in Pages : launches'[p] = launches[p]]_vars

C12_Witness ==
    /\ pc = "retry"
    /\ actualTotalPages = 1
    /\ errorCount = 1
    /\ task[1] = "fetching"
    /\ attempt[1] = 1

\* The identifiers a page holds in a link context: 64 hex digits at the end
\* of an href.
LinkedIds(content) ==
    {t.id : t \in {x \in Range(content.links) : x.href /\ x.id \in Hashes}}

C14_AlwaysReturns == <>(pc = "done")

\* What does hold: once detection has ended, scrappe() returns.
ReturnsOnceDetected == (pc = "launch") ~> (pc = "done")

C16_DetectionFallsBackToOne ==
    /\ [][pc = "detect" /\ (DetectTotalPagesFails \/ DetectDone(OrOne(0))) =>
             detectedPages' = 1 /\ actualTotalPages' = 1 /\ pc' = "launch"]_vars
    /\ [](pc \notin {"created", "detect"} =>
             detectedPages >= 1 /\ actualTotalPages >= 1)
    /\ [](actualTotalPages = 1 =>
             /\ pc = "launch" => ENABLED LaunchWave
             /\ pc \in {"await", "final", "retry", "done"} =>
                    launches = [p \in Pages |-> IF p = 1 THEN 1 ELSE 0]
             /\ pc = "done" => 1 \in okPages \/ 1 \in failedPages)

C16_Witness ==
    /\ pc = "done"
    /\ detectedPages = 1
    /\ totalPages = 2
    /\ processedPages = {1}
    /\ launches[2] = 0

\* C17: runScraper starts both sessions before it awaits, resolves only when
\* both have returned, and returns each session's own list unchanged: a step
\* of one session leaves the sets of the other alone, no identifier of one
\* category reaches the other session's set, and an identifier both sessions
\* found stays in both lists.
C17_BothSessionsOwnLists ==
    /\ [][/\ internal' # internal /\ run' = run =>
                UNCHANGED << allHashesSet, failedPages, processedPages, uniqueHashes >>
          /\ << allHashesSet, failedPages, uniqueHashes >>'
                 # << allHashesSet, failedPages, uniqueHashes >> =>
                internal' = internal]_vars
    /\ []((pc = "created") <=> (internal.pc = "created"))
    /\ [](allHashesSet \subseteq Hashes /\ internal.allHashesSet \subseteq InternalHashes)
    /\ [](run.pc # "resolved" => run.result = NoResult)
    /\ [](run.pc = "resolved" =>
             /\ pc = "done" /\ internal.pc = "done"
             /\ run.result.external = uniqueHashes
             /\ run.result.internal = internal.uniqueHashes
             /\ DOMAIN run.result = {"external", "internal", "totalTime"})

C17_Witness ==
    /\ run.pc = "resolved"
    /\ run.result.external = {"0xAA", "0xBB"}
    /\ run.result.internal = {"0xBB", "0xCC"}
    /\ run.result.totalTime = 1
    /\ failedPages = {}
    /\ internal.failedPages = {}

Launched == {p \in Pages : launches'[p] > launches[p]}

\* C18: pages are launched in waves. A launching step happens only between
\* waves, starts at page k*maxWindows+1 and launches exactly the pages up to
\* (k+1)*maxWindows clipped to actualTotalPages; every page of the earlier
\* waves has been launched, and those whose task has not settled are no more
\* than the hard timeouts counted so far. The step that ends a wave finds each
\* of its tasks settled or timed out.
C18_WavesInOrder ==
    [][/\ launches' # launches =>
            /\ pc \in {"launch", "delay"}
            /\ (batchStart - 1) % maxWindows = 0
            /\ Launched = batchStart ..
                             Min(batchStart + maxWindows - 1, actualTotalPages)
            /\ \A q \in 1 .. batchStart - 1 : launches[q] > 0
            /\ Cardinality({q \in 1 .. batchStart - 1 : task[q] # "settled"})
                   <= errorCount
       /\ pc = "await" /\ pc' # "await" =>
            \A p \in Batch : raced[p] = "rejected" \/ task[p] = "settled"]_vars

C18_Witness ==
    /\ maxWindows = 1
    /\ launches[2] = 1
    /\ task[2] = "chained"
    /\ task[1] = "fetching"
    /\ errorCount = 1

SameSlot(p, q) == p # q /\ WindowIndex(p) = WindowIndex(q)

Fetching(p) == task[p] \in {"fetching", "backoff"}

\* C19: a task starts its fetch on a slot only when no other task of that
\* slot is still fetching, in any pass of the session.
C19_SlotSerialized ==
    [][\A p \in Pages :
          ~Fetching(p) /\ task'[p] = "fetching" =>
              \A q \in Pages :
                  SameSlot(p, q) => task'[q] \in {"none", "chained", "settled"}]_vars

\* C20: of two pages p < q of one slot, q is never fetching while a fetch of
\* p is running or still waiting in the chain.
C20_SlotPageOrder ==
    \A p \in Pages : \A q \in Pages :
        p < q /\ SameSlot(p, q) /\ Fetching(q) => ~InFlight(p)

\* C21: the Retry Pass begins only from the end of the wave loop, when every
\* wave has been launched and every main-pass task, the timed-out ones
\* included, has settled and drives no window; during the pass only pages of
\* the failure registry are fetched.
C21_RetryAfterMainPass ==
    /\ [][pc # "retry" /\ pc' = "retry" =>
              /\ pc = "final"
              /\ batchStart > actualTotalPages
              /\ \A p \in 1 .. actualTotalPages :
                     launches[p] > 0 /\ task[p] = "settled"
              /\ \A w \in DOMAIN windows : windows[w] = {}]_vars
    /\ [](pc = "retry" => \A p \in Pages : InFlight(p) => p \in failedPages)

C21_Witness ==
    /\ pc = "retry"
    /\ maxWindows = 1
    /\ actualTotalPages = 2
    /\ errorCount = 1
    /\ failedPages = {1}
    /\ processedPages = {2}
    /\ task[1] = "fetching"

\* C22 as stated: in the Retry Pass no page is fetched more than once.
C22_OneFetchPerRetry == pc = "retry" => \A p \in Pages : attempt[p] <= 1

\* C22, amended: the Retry Pass gives every page of the failure registry, and
\* no other page, exactly one more task of at most maxRetries fetch attempts;
\* a task that has settled in the pass is not started again; a page whose
\* task succeeds leaves the registry, a page whose task fails stays in it and
\* adds nothing to the hash set.
C22_OneTaskPerRetry ==
    /\ [][/\ pc # "retry" /\ pc' = "retry" =>
                /\ {p \in Pages : task'[p] = "fetching"} = failedPages
                /\ \A p \in failedPages : attempt'[p] = 1
          /\ pc = "retry" =>
                \A p \in Pages :
                    /\ task[p] = "settled" => task'[p] = "settled"
                    /\ task[p] = "fetching" /\ task'[p] = "settled" =>
                          /\ p \in failedPages
                          /\ p \in okPages' <=> p \notin failedPages'
                          /\ p \notin okPages' => allHashesSet' = allHashesSet
                          /\ failedPages \ {p} \subseteq failedPages']_vars
    /\ [](pc = "retry" =>
             \A p \in Pages :
                 /\ attempt[p] <= maxRetries
                 /\ InFlight(p) => p \in failedPages /\ p \notin okPages)

C22_Witness ==
    /\ pc = "retry"
    /\ actualTotalPages = 2
    /\ failedPages = {1, 2}
    /\ task[2] = "settled"
    /\ task[1] = "fetching"
    /\ attempt[1] = 2

\* A main-pass step in which a fetch attempt for page p ends with outcome o.
AttemptEnds(p, o) == AttemptFails(p, o) \/ TaskSettles(p, o)

\* The attempt's content passed the classification of scrapePage.
ReachedOk(o) == Truthy(scrapePage(o))

\* C23: a page task makes at most maxRetries fetch attempts, stops at the
\* first attempt that reaches Ok and is then Succeeded, is Succeeded only if
\* the attempt that ended it reached Ok, is otherwise added to failedPages,
\* and takes no delay after its last attempt.
C23_InlineRetry ==
    /\ [][\A p \in Pages, o \in Outcomes :
              AttemptEnds(p, o) =>
                  /\ ReachedOk(o) => task'[p] = "settled" /\ p \in processedPages'
                  /\ p \in processedPages' => ReachedOk(o)
                  /\ task'[p] = "settled" /\ ~ReachedOk(o) => p \in failedPages'
                  /\ attempt[p] = maxRetries => task'[p] = "settled"]_vars
    /\ [](\A p \in Pages : attempt[p] <= maxRetries)

\* The task of page p lost the race against the hard timeout of its wave,
\* which has not ended yet.
TimedOut(p) == raced[p] = "rejected"

\* C24: a page whose task exceeded the hard timeout is Failed whatever its
\* fetch does later: once the fetch has completed the page is in failedPages
\* and not in processedPages.
C24_TimedOutIsFailed ==
    \A p \in Pages :
        TimedOut(p) /\ task[p] = "settled" =>
            p \in failedPages /\ p \notin processedPages

\* C25: the completion of a fetch whose task already lost the race changes
\* neither the hash set nor the recorded status of the page.
C25_LateCompletionIgnored ==
    [][\A p \in Pages :
          TimedOut(p) /\ task[p] # "settled" /\ task'[p] = "settled" =>
              /\ allHashesSet' = allHashesSet
              /\ processedPages' = processedPages
              /\ failedPages' = failedPages]_vars

\* The pages of the wave that has just ended.
LastWave == (batchStart - maxWindows) .. (batchStart - 1)

\* C26: every task of a wave that ended Failed is counted in the wave's error
\* count, so a wave with more than 2 failed pages, when another wave remains,
\* is followed by a delay longer than the base delay.
C26_FailedTasksCounted ==
    AnotherWaveRemains =>
        /\ batchErrors >= Cardinality(LastWave \cap failedPages)
        /\ Cardinality(LastWave \cap failedPages) > 2 =>
               pc = "delay" /\ delay > batchDelay

\* C27: when the attempt that failed was a network abort or a timeout, the
\* delay before the next attempt is min(1000 * attempt, 3000), longer than the
\* delay taken after a content failure.
C27_LongerDelayAfterAbort ==
    [][\A p \in Pages, o \in Outcomes :
          AttemptFails(p, o) /\ o.error \in {"ERR_ABORTED", "timeout"} =>
              backoffDelay'[p] = Min(RateLimitDelayStep * attempt[p], RateLimitDelayCap)]_vars

\* Content of 500 characters or more that holds no block signature.
LongAndClean(content) ==
    /\ Truthy(content)
    /\ content.len >= MinContentLength
    /\ content.pats = {}

\* C28: a task whose last fetch returns content of 500 characters or more
\* without a block signature, exactly 500 included, is Succeeded: the page is
\* not added to failedPages and the identifiers of the content are in the hash
\* set.
C28_FiveHundredIsOk ==
    [][\A p \in Pages, o \in Outcomes :
          /\ o.error = "none"
          /\ LongAndClean(o.content)
          /\ (TaskSettles(p, o) \/ RetrySettles(p, o))
          => /\ p \in okPages'
             /\ LinkedIds(o.content) \subseteq allHashesSet'
             /\ pc # "retry" => p \notin failedPages' /\ p \in processedPages']_vars

RECURSIVE MatchesBefore(_, _)
\* The number of matches the scan has met before piece i.
MatchesBefore(links, i) ==
    IF i <= 1 THEN 0
    ELSE MatchesBefore(links, i - 1)
         + (IF Matches(links[i - 1]) THEN links[i - 1].times ELSE 0)

\* The identifiers among the first limit matches of a page.
FirstMatches(content, limit) ==
    {content.links[i].id :
        i \in {j \in DOMAIN content.links :
                 Matches(content.links[j]) /\ MatchesBefore(content.links, j) < limit}}

\* C29: extraction takes at most 10,000 matches of a page: the array returned
\* holds the identifiers of the first 10,000 matches and no other.
C29_CapAtTenThousand ==
    pc = "merged" => Range(pageHashes) = FirstMatches(pageHtml, MatchLimit)

\* C30: every window of the session exists from construction on, and once
\* scrappe() has returned every window has been destroyed.
C30_WindowsEndWithSession ==
    /\ Cardinality(DOMAIN windows) = maxWindows
    /\ pc # "done" => destroyed = {}
    /\ pc = "done" => destroyed = DOMAIN windows

\* C31: the status file is read once; if it is present the test window is
\* never opened and nothing is marked; if it is absent the wait ends by the
\* first of table found, timeout and manual close, which marks the file once,
\* and no later poll result, timer or close event marks again.
C31_BypassMarksOnce ==
    /\ run.reads <= 1
    /\ run.skipTestWindow => run.testWindow = "none" /\ run.marks = 0
    /\ run.marks <= 1
    /\ run.pc \in {"sessions", "returned"} /\ ~run.skipTestWindow =>
           run.marks = 1 /\ run.resolved

\* C32: runScraper quits the application on every exit path: it returns the
\* combined result and has quit, or it rejects with no result and has quit.
C32_QuitsOnEveryExit ==
    /\ run.pc = "returned" => run.quit /\ run.result # NoResult
    /\ run.pc = "rejected" => run.quit /\ run.result = NoResult

====
